---- MODULE Spec2Model ----
(***************************************************************************)
(* clint_utilities: the durable HTTP request executor                      *)
(* (make_durable_request and its presets make_durable_post and             *)
(* make_durable_get) and the process-wide parse_date cache.                *)
(*                                                                         *)
(* One durable-request call is a stack of make_durable_request frames      *)
(* (the retry is a recursive call).  A frame that raises or returns leaves *)
(* a signal for the frame below it; the signal that leaves the outermost   *)
(* frame is what the entry point (the bare executor or one of the two      *)
(* presets) hands to the caller.                                           *)
(***************************************************************************)
EXTENDS Integers, Sequences, FiniteSets, TLC

VARIABLES
    entry,          \* which function the caller called
    args,           \* the arguments the caller supplied
    stack,          \* make_durable_request frames, innermost last
    signal,         \* how the frame that just exited ended (raise / return)
    events,         \* transport invocations, sleeps and log records, in order
    result,         \* what the caller observes
    PARSED_DATES,   \* _PARSED_DATES, the module-level dict
    parses,         \* the parse_date calls made so far and what each gave (history)
    memo,           \* an earlier completed durable-request call (history)
    ncalls          \* number of durable-request calls started so far

vars == <<entry, args, stack, signal, events, result, PARSED_DATES, parses, memo, ncalls>>

----------------------------------------------------------------------------
(* Bounds of the model *)

MaxAttempts == 3        \* largest num_attempts a caller passes
MaxDelay == 2           \* largest initial delay a caller passes
MaxCalls == 2           \* durable-request calls in one run of SpecSeq
MaxParses == 1          \* parse_date calls in one run of SpecSeq
MaxDateCalls == 3       \* parse_date calls in one run of SpecDates

----------------------------------------------------------------------------
(* Python values *)

\* Optional[...]: None, or a present value (a list or dict, as a set).
None == [present |-> FALSE, val |-> {}]
Some(v) == [present |-> TRUE, val |-> v]

\* bool(x) of an Optional list or dict: None and the empty container are falsy.
Truthy(x) == x.present /\ x.val # {}

NoResponse == [present |-> FALSE, status_code |-> 0, text |-> 0]
Response(status, text) == [present |-> TRUE, status_code |-> status, text |-> text]

\* What one transport invocation can do: return a response or raise.
Statuses == {200, 201, 409, 499, 500, 599, 600}
Exceptions == {"ConnectionError", "socket.timeout", "ValueError"}
Outcomes ==
    [type : {"response"}, status_code : Statuses, exc : {"-"}]
        \cup [type : {"raise"}, status_code : {0}, exc : Exceptions]

\* The transports callers pass as method: requests.post and requests.get,
\* which can have any outcome, and two stubs used in the sequential runs:
\* "flaky", a flaky server, and "broken", which answers with a client error
\* or fails inside the transport.
MethodOutcomes(method) ==
    CASE method = "flaky" ->
            { [type |-> "response", status_code |-> 500, exc |-> "-"],
              [type |-> "response", status_code |-> 201, exc |-> "-"],
              [type |-> "raise", status_code |-> 0, exc |-> "ConnectionError"] }
      [] method = "broken" ->
            { [type |-> "response", status_code |-> 499, exc |-> "-"],
              [type |-> "raise", status_code |-> 0, exc |-> "ValueError"] }
      [] OTHER -> Outcomes

Urls == {"http://example.com/resource", "http://example.com/resource/1"}
SuccessCodeArgs == {None, Some({}), Some({200}), Some({201, 409}), Some({200, 500})}
JsonArgs == {None, Some({}), Some({"resources"})}
\* The (success, error) classes a caller of make_durable_request passes.
ClassArgs == {<<"None", "None">>, <<"StoreSuccess", "StoreError">>}

----------------------------------------------------------------------------
(* Signals and exceptions *)

NoSignal == [kind |-> "none", cls |-> "-", response |-> NoResponse, detail |-> <<>>]
Raise(cls, response, detail) ==
    [kind |-> "raise", cls |-> cls, response |-> response, detail |-> detail]
ReturnNone == [kind |-> "return", cls |-> "-", response |-> NoResponse, detail |-> <<>>]
ReturnValue(response) ==
    [kind |-> "return", cls |-> "-", response |-> response, detail |-> <<>>]

\* issubclass(cls, base) for the exception classes of the module.
IsSubclass(cls, base) ==
    \/ cls = base
    \/ cls = "StoreSuccess" /\ base = "RequestSuccess"
    \/ cls = "StoreError" /\ base = "RequestError"

----------------------------------------------------------------------------
(* make_durable_request, piece by piece *)

\* A validation that lets a budget of zero through.
ValidationError_ZeroAllowed(num_attempts, delay) ==
    IF num_attempts < 0
    THEN "The value of num_attempts must be greater than 0."
    ELSE IF delay < 0
         THEN "The value of delay must be greater than or equal to 0."
         ELSE ""

\* Lines 85-88: the message of the ValueError raised, "" when the arguments pass.
ValidationError(num_attempts, delay) ==
    IF num_attempts <= 0
    THEN "The value of num_attempts must be greater than 0."
    ELSE IF delay < 0
         THEN "The value of delay must be greater than or equal to 0."
         ELSE ""

\* Lines 89-90: success or RequestSuccess, error or RequestError.
SuccessClass(success) == IF success = "None" THEN "RequestSuccess" ELSE success
ErrorClass(error) == IF error = "None" THEN "RequestError" ELSE error

\* Line 91: success_codes or [200, 201, 202, 204].
DefaultSuccessCodes == {200, 201, 202, 204}
EffectiveSuccessCodes(success_codes) ==
    IF Truthy(success_codes) THEN success_codes.val ELSE DefaultSuccessCodes

\* Lines 95-98: the keyword arguments the transport is invoked with.
CallKwargs(json) == IF Truthy(json) THEN {"url", "json"} ELSE {"url"}

\* A narrower except clause: socket.timeout is not caught.
Recognized_OnlyConnectionError(exc) == exc = "ConnectionError"

\* A broader except clause: every exception is caught.
Recognized_Everything(exc) == TRUE

\* Line 99: the except clause.
Recognized(exc) == exc \in {"ConnectionError", "socket.timeout"}

\* A server-error test that leaves out status 500.
IsServerError_Above500(status_code) == status_code > 500 /\ status_code < 600

\* Line 104.
IsServerError(status_code) == status_code >= 500 /\ status_code < 600

\* A classification that ignores the configured success codes.
Classify_DefaultCodesOnly(response, success_codes) ==
    IF ~response.present THEN "TransportFailure"
    ELSE IF response.status_code >= 500 /\ response.status_code < 600 THEN "ServerError"
    ELSE IF response.status_code \in {200, 201, 202, 204} THEN "Success"
    ELSE "ClientError"

\* Lines 103-118: the class of an attempt's outcome.
Classify(response, success_codes) ==
    IF ~response.present THEN "TransportFailure"
    ELSE IF IsServerError(response.status_code) THEN "ServerError"
    ELSE IF response.status_code \in success_codes THEN "Success"
    ELSE "ClientError"

\* An exhausted error that carries the status of the last response.
ExhaustedDetail_LastStatus ==
    <<"Unable to complete request.", stack[Len(stack)].response.status_code>>

\* Lines 115-118 and 134: the arguments of the error raised.
ClientErrorDetail(response) ==
    <<"Could not complete request due to stauts code %s: %s",
      response.status_code, response.text>>
ExhaustedDetail == <<"Unable to complete request.">>

\* A retry budget shared by all the calls of the process.
WillRetry_SharedBudget(num_attempts) == num_attempts > ncalls

\* A retry that is never refused.
WillRetry_Always(num_attempts) == TRUE

\* A retry test that is off by one: the last attempt is retried too.
WillRetry_OffByOne(num_attempts) == num_attempts >= 1

\* Line 120.
WillRetry(num_attempts) == num_attempts > 1

\* A retry that does not double the delay.
NextDelay_NotDoubled(delay) == delay

\* A retry that passes the budget on undiminished.
NextAttempts_NotDecremented(num_attempts) == num_attempts

\* Lines 126-127: the budget and delay of the recursive call.
NextAttempts(num_attempts) == num_attempts - 1
NextDelay(delay) == delay * 2

\* A frame that swallows whatever the recursive call raised.
AfterRecursiveCall_Swallows(sig) == ReturnNone

\* Lines 123-132: what the frame does once the recursive call has exited: an
\* exception propagates (no handler encloses the call); after a normal return
\* the function falls off its end and returns None.
AfterRecursiveCall(sig) == IF sig.kind = "raise" THEN sig ELSE ReturnNone

Frame(method, url, num_attempts, delay, success_codes, success, error, json) ==
    [method |-> method, url |-> url, num_attempts |-> num_attempts, delay |-> delay,
     success_codes |-> success_codes, success |-> success, error |-> error,
     json |-> json, response |-> NoResponse, pc |-> "validate"]

Top == stack[Len(stack)]
Pop == SubSeq(stack, 1, Len(stack) - 1)
SetTop(f) == [stack EXCEPT ![Len(stack)] = f]
Running == stack # <<>> /\ signal.kind = "none"

\* Event records.
CallEvent(url, json, outcome) ==
    [type |-> "call", url |-> url, kwargs |-> CallKwargs(json),
     json |-> (IF "json" \in CallKwargs(json) THEN json ELSE None), outcome |-> outcome, dur |-> 0, level |-> "-", msg |-> "-",
     params |-> <<>>]
SleepEvent(delay) ==
    [type |-> "sleep", url |-> "-", kwargs |-> {}, json |-> None,
     outcome |-> [type |-> "-", status_code |-> 0, exc |-> "-"],
     dur |-> delay, level |-> "-", msg |-> "-", params |-> <<>>]
\* A log record that drops the arguments of the message.
LogEvent_NoParams(level, msg, params) ==
    [type |-> "log", url |-> "-", kwargs |-> {}, json |-> None,
     outcome |-> [type |-> "-", status_code |-> 0, exc |-> "-"],
     dur |-> 0, level |-> level, msg |-> msg, params |-> <<>>]

LogEvent(level, msg, params) ==
    [type |-> "log", url |-> "-", kwargs |-> {}, json |-> None,
     outcome |-> [type |-> "-", status_code |-> 0, exc |-> "-"],
     dur |-> 0, level |-> level, msg |-> msg, params |-> params]

RECURSIVE Select(_, _)
Select(s, type) ==
    IF s = <<>> THEN <<>>
    ELSE IF Head(s).type = type THEN <<Head(s)>> \o Select(Tail(s), type)
    ELSE Select(Tail(s), type)

Calls == Select(events, "call")
Sleeps == Select(events, "sleep")
Logs == Select(events, "log")

Frozen == UNCHANGED <<entry, args, PARSED_DATES, parses, memo, ncalls>>

\* Lines 84-92.
Validate ==
    /\ Running /\ Top.pc = "validate"
    /\ LET msg == ValidationError(Top.num_attempts, Top.delay) IN
       IF msg # ""
       THEN /\ signal' = Raise("ValueError", NoResponse, <<msg>>)
            /\ stack' = Pop
       ELSE /\ stack' = SetTop([Top EXCEPT
                           !.success = SuccessClass(Top.success),
                           !.error = ErrorClass(Top.error),
                           !.success_codes = Some(EffectiveSuccessCodes(Top.success_codes)),
                           !.pc = "execute"])
            /\ UNCHANGED signal
    /\ UNCHANGED <<events, result>>
    /\ Frozen

\* Lines 93-100: one transport invocation and what comes back from it.
Execute ==
    /\ Running /\ Top.pc = "execute"
    /\ \E o \in MethodOutcomes(Top.method) :
        LET call == CallEvent(Top.url, Top.json, o)
            serial == Len(Calls) + 1
        IN  IF o.type = "response"
            THEN /\ events' = Append(events, call)
                 /\ stack' = SetTop([Top EXCEPT
                                !.response = Response(o.status_code, serial),
                                !.pc = "process"])
                 /\ UNCHANGED signal
            ELSE IF Recognized(o.exc)
            THEN /\ events' = events \o <<call, LogEvent("warning", "Network error.", <<>>)>>
                 /\ stack' = SetTop([Top EXCEPT !.pc = "process"])
                 /\ UNCHANGED signal
            ELSE /\ events' = Append(events, call)
                 /\ signal' = Raise(o.exc, NoResponse, <<"transport">>)
                 /\ stack' = Pop
    /\ UNCHANGED result
    /\ Frozen

\* Lines 102-118.
Process ==
    /\ Running /\ Top.pc = "process"
    /\ LET class == Classify(Top.response, Top.success_codes.val) IN
       CASE class = "TransportFailure" ->
                /\ stack' = SetTop([Top EXCEPT !.pc = "retry"])
                /\ UNCHANGED <<events, signal>>
         [] class = "ServerError" ->
                /\ events' = Append(events, LogEvent("warning", "Server error.", <<>>))
                /\ stack' = SetTop([Top EXCEPT !.pc = "retry"])
                /\ UNCHANGED signal
         [] class = "Success" ->
                /\ events' = Append(events, LogEvent("info", "Request was successful.", <<>>))
                /\ signal' = Raise(Top.success, Top.response, <<>>)
                /\ stack' = Pop
         [] OTHER ->
                /\ events' = Append(events,
                        LogEvent("error",
                                 "Could not complete request due to status code %s: %s",
                                 <<Top.response.status_code, Top.response.text>>))
                /\ signal' = Raise(Top.error, NoResponse, ClientErrorDetail(Top.response))
                /\ stack' = Pop
    /\ UNCHANGED result
    /\ Frozen

\* Lines 120-121 and 133-134.
Retry ==
    /\ Running /\ Top.pc = "retry"
    /\ IF WillRetry(Top.num_attempts)
       THEN /\ events' = Append(events, LogEvent("info", "Will retry request.", <<>>))
            /\ stack' = SetTop([Top EXCEPT !.pc = "sleep"])
            /\ UNCHANGED signal
       ELSE /\ signal' = Raise(Top.error, NoResponse, ExhaustedDetail)
            /\ stack' = Pop
            /\ UNCHANGED events
    /\ UNCHANGED result
    /\ Frozen

\* Line 122.
Sleep ==
    /\ Running /\ Top.pc = "sleep"
    /\ events' = Append(events, SleepEvent(Top.delay))
    /\ stack' = SetTop([Top EXCEPT !.pc = "recurse"])
    /\ UNCHANGED <<signal, result>>
    /\ Frozen

\* Lines 123-132: the recursive call is entered.
Recurse ==
    /\ Running /\ Top.pc = "recurse"
    /\ stack' = Append(SetTop([Top EXCEPT !.pc = "called"]),
                       Frame(Top.method, Top.url, NextAttempts(Top.num_attempts), NextDelay(Top.delay),
                             Top.success_codes, Top.success, Top.error, Top.json))
    /\ UNCHANGED <<signal, events, result>>
    /\ Frozen

\* Lines 123-132: the recursive call has exited; so does this frame.
Unwind ==
    /\ stack # <<>> /\ signal.kind # "none" /\ Top.pc = "called"
    /\ signal' = AfterRecursiveCall(signal)
    /\ stack' = Pop
    /\ UNCHANGED <<events, result>>
    /\ Frozen

----------------------------------------------------------------------------
(* The entry points *)

Args(method, url, num_attempts, delay, success_codes, success, error, json) ==
    [method |-> method, url |-> url, num_attempts |-> num_attempts, delay |-> delay,
     success_codes |-> success_codes, success |-> success, error |-> error,
     json |-> json]

\* A store preset that does not count "already exists" as success.
PostSuccessCodes_CreatedOnly == {201}

\* Lines 146-148: the preset of make_durable_post.
PostSuccessCodes == {201, 409}

\* The first make_durable_request frame of a call: the caller's own call of
\* make_durable_request, lines 141-150 of make_durable_post, or lines 158-160
\* of make_durable_get.
FirstFrame(e, a) ==
    CASE e = "make_durable_request" ->
            Frame(a.method, a.url, a.num_attempts, a.delay, a.success_codes,
                  a.success, a.error, a.json)
      [] e = "make_durable_post" ->
            Frame(a.method, a.url, a.num_attempts, a.delay, Some(PostSuccessCodes),
                  "StoreSuccess", "StoreError", a.json)
      [] OTHER ->
            Frame(a.method, a.url, a.num_attempts, a.delay, None, "None", "None", None)

\* Lines 151 and 161: the success class each preset catches.
Catches(e) == IF e = "make_durable_post" THEN "StoreSuccess" ELSE "RequestSuccess"

\* What the caller of the entry point observes, given how the outermost
\* make_durable_request frame ended.  The presets (lines 140-153, 157-163)
\* catch their success class and return its response; any other exception
\* passes through; after a normal return, response is unbound at the return
\* statement.
EntryResult(e, sig) ==
    IF e = "make_durable_request" THEN sig
    ELSE IF sig.kind = "raise"
         THEN IF IsSubclass(sig.cls, Catches(e))
              THEN ReturnValue(sig.response)
              ELSE sig
         ELSE Raise("UnboundLocalError", NoResponse, <<"response">>)

InCall == stack # <<>> \/ signal.kind # "none"
Done == result.kind # "none"

\* The outermost frame has exited: the entry point finishes.
Complete ==
    /\ stack = <<>> /\ signal.kind # "none"
    /\ result' = EntryResult(entry, signal)
    /\ signal' = NoSignal
    /\ UNCHANGED <<stack, events>>
    /\ Frozen

\* The arguments callers pass, per entry point.
\* make_durable_request is called either with a success code list and the
\* other optional arguments left out, or with a body and classes of its own.
RequestArgs(maxAttempts, maxDelay) ==
    { Args(m, "http://example.com/resource", n, d, sc, "None", "None", None) :
        m \in {"requests.get"}, n \in -1..maxAttempts, d \in -1..maxDelay,
        sc \in SuccessCodeArgs }
    \cup
    { Args(m, u, n, d, None, cl[1], cl[2], j) :
        m \in {"requests.post"}, u \in Urls, n \in -1..maxAttempts,
        d \in -1..maxDelay, cl \in ClassArgs, j \in JsonArgs }
PostArgs(maxAttempts, maxDelay) ==
    { Args("requests.post", u, n, d, None, "None", "None", j) :
        u \in Urls, n \in -1..maxAttempts, d \in -1..maxDelay,
        j \in JsonArgs \ {None} }
GetArgs(maxAttempts, maxDelay) ==
    { Args("requests.get", u, n, d, None, "None", "None", None) :
        u \in Urls, n \in -1..maxAttempts, d \in -1..maxDelay }
EntryArgs(e, maxAttempts, maxDelay) ==
    CASE e = "make_durable_request" -> RequestArgs(maxAttempts, maxDelay)
      [] e = "make_durable_post" -> PostArgs(maxAttempts, maxDelay)
      [] OTHER -> GetArgs(maxAttempts, maxDelay)
Entries == {"make_durable_request", "make_durable_post", "make_durable_get"}

NoMemo ==
    [set |-> FALSE, entry |-> "-",
     args |-> Args("-", "-", 0, 0, None, "None", "None", None),
     events |-> <<>>, result |-> NoSignal]

Init ==
    /\ entry \in Entries
    /\ args \in EntryArgs(entry, MaxAttempts, MaxDelay)
    /\ stack = <<FirstFrame(entry, args)>>
    /\ signal = NoSignal
    /\ events = <<>>
    /\ result = NoSignal
    /\ PARSED_DATES = {}
    /\ parses = <<>>
    /\ memo = NoMemo
    /\ ncalls = 1

Next ==
    \/ Validate
    \/ Execute
    \/ Process
    \/ Retry
    \/ Sleep
    \/ Recurse
    \/ Unwind
    \/ Complete

Spec == Init /\ [][Next]_vars

\* The call runs on one thread and every statement of it finishes (the
\* transport returns or raises, time.sleep returns): a step that can be taken
\* is taken.
SpecFair == Spec /\ WF_vars(Next)

----------------------------------------------------------------------------
(* parse_date and the module-level cache *)

DateStrings == {"2020-06-20", "2020-06-20T14:39:10-0600", "not a date"}

\* dateutil.parser.parse (line 10): the datetime a string denotes; a string
\* that denotes none makes it raise.
Parses(date_string) == date_string # "not a date"
Parse(date_string) ==
    IF date_string = "2020-06-20"
    THEN [year |-> 2020, month |-> 6, day |-> 20, hour |-> 0, minute |-> 0,
          second |-> 0, tzoffset |-> "naive"]
    ELSE [year |-> 2020, month |-> 6, day |-> 20, hour |-> 14, minute |-> 39,
          second |-> 10, tzoffset |-> "-21600"]

\* The dict _PARSED_DATES (line 14) is a set of <<key, value>> pairs.
Keys(dict) == { kv[1] : kv \in dict }
Get(dict, key) == (CHOOSE kv \in dict : kv[1] = key)[2]
Store(dict, key, value) == { kv \in dict : kv[1] # key } \cup {<<key, value>>}

\* A lookup that never finds the string.
CacheMiss_Always(dict, date_string) == TRUE

\* Line 50: _PARSED_DATES.get(date_string) is None.
CacheMiss(dict, date_string) == date_string \notin Keys(dict)

\* A string with no date in it: dateutil.parser.parse fills the date in from
\* the day of the call.
RelativeStrings == {"14:39:10"}
Today == {20, 21}
ParseOn(date_string, today) ==
    IF date_string \in RelativeStrings
    THEN [year |-> 2020, month |-> 6, day |-> today, hour |-> 14, minute |-> 39,
          second |-> 10, tzoffset |-> "naive"]
    ELSE Parse(date_string)

NoDate ==
    [year |-> 0, month |-> 0, day |-> 0, hour |-> 0, minute |-> 0,
     second |-> 0, tzoffset |-> "-"]

\* Lines 49-52.  A parse that raises leaves the dict as it was.
ParseDateCall(max, strings, days) ==
    /\ ~InCall
    /\ Len(parses) < max
    /\ \E date_string \in strings : \E today \in days :
        IF CacheMiss(PARSED_DATES, date_string) /\ ~Parses(date_string)
        THEN /\ parses' = Append(parses, [date_string |-> date_string,
                                          today |-> today,
                                          raised |-> TRUE, value |-> NoDate])
             /\ UNCHANGED PARSED_DATES
        ELSE LET dict == IF CacheMiss(PARSED_DATES, date_string)
                         THEN Store(PARSED_DATES, date_string,
                                    ParseOn(date_string, today))
                         ELSE PARSED_DATES
             IN  /\ PARSED_DATES' = dict
                 /\ parses' = Append(parses, [date_string |-> date_string,
                                              today |-> today,
                                              raised |-> FALSE,
                                              value |-> Get(dict, date_string)])
    /\ UNCHANGED <<entry, args, stack, signal, events, result, memo, ncalls>>

ParseDate == ParseDateCall(MaxParses, DateStrings, {20})

\* A process that only parses dates, on one day or the next.
ParseDateAnyDay ==
    ParseDateCall(MaxDateCalls, DateStrings \cup RelativeStrings, Today)

InitDates ==
    /\ entry = "make_durable_request"
    /\ args = Args("flaky", "http://example.com/resource", 1, 1, None, "None",
                   "None", None)
    /\ stack = <<>>
    /\ signal = NoSignal
    /\ events = <<>>
    /\ result = NoSignal
    /\ PARSED_DATES = {}
    /\ parses = <<>>
    /\ memo = NoMemo
    /\ ncalls = 0

NextDates == ParseDateAnyDay

SpecDates == InitDates /\ [][NextDates]_vars

----------------------------------------------------------------------------
(* A process that makes several calls, one after the other *)

SeqArgs(e) ==
    { Args(m, "http://example.com/resource", n, 1, None, "None", "None", j) :
        m \in {"flaky", "broken"}, n \in {1, 3},
        j \in CASE e = "make_durable_request" -> {None, Some({"resources"})}
                [] e = "make_durable_post" -> {Some({"resources"})}
                [] OTHER -> {None} }

\* The call that has just finished, as an earlier call to compare with.
Summary ==
    [set |-> TRUE, entry |-> entry, args |-> args, events |-> events,
     result |-> result]

\* The caller makes its next durable-request call.
StartCall ==
    /\ Done /\ ~InCall
    /\ ncalls < MaxCalls
    /\ \E e \in Entries : \E a \in SeqArgs(e) :
        /\ entry' = e
        /\ args' = a
        /\ stack' = <<FirstFrame(e, a)>>
    /\ memo' \in (IF memo.set THEN {memo} ELSE {memo, Summary})
    /\ signal' = NoSignal
    /\ events' = <<>>
    /\ result' = NoSignal
    /\ ncalls' = ncalls + 1
    /\ UNCHANGED <<PARSED_DATES, parses>>

InitSeq ==
    /\ entry \in Entries
    /\ args \in SeqArgs(entry)
    /\ stack = <<FirstFrame(entry, args)>>
    /\ signal = NoSignal
    /\ events = <<>>
    /\ result = NoSignal
    /\ PARSED_DATES = {}
    /\ parses = <<>>
    /\ memo = NoMemo
    /\ ncalls = 1

NextSeq ==
    \/ Validate
    \/ Execute
    \/ Process
    \/ Retry
    \/ Sleep
    \/ Recurse
    \/ Unwind
    \/ Complete
    \/ StartCall
    \/ ParseDate

SpecSeq == InitSeq /\ [][NextSeq]_vars

----------------------------------------------------------------------------
(* Vocabulary of the properties, stated without the operators of the code *)

N == args.num_attempts
D == args.delay
ValidArgs == N >= 1 /\ D >= 0

RECURSIVE Pow2(_)
Pow2(k) == IF k <= 0 THEN 1 ELSE 2 * Pow2(k - 1)

\* A connectivity/timeout failure or a 5xx response.
RetryableOutcome(o) ==
    \/ o.type = "raise" /\ o.exc \in {"ConnectionError", "socket.timeout"}
    \/ o.type = "response" /\ o.status_code \in 500..599

\* The success code set the call is configured with.
ConfiguredCodes ==
    CASE entry = "make_durable_post" -> {201, 409}
      [] entry = "make_durable_request" /\ args.success_codes.present ->
            args.success_codes.val
      [] OTHER -> {200, 201, 202, 204}

\* The success and error classes the call is configured with.
ConfiguredSuccess ==
    CASE entry = "make_durable_post" -> "StoreSuccess"
      [] entry = "make_durable_request" /\ args.success # "None" -> args.success
      [] OTHER -> "RequestSuccess"
ConfiguredError ==
    CASE entry = "make_durable_post" -> "StoreError"
      [] entry = "make_durable_request" /\ args.error # "None" -> args.error
      [] OTHER -> "RequestError"

\* Transport invocations and sleeps only, in order.
RECURSIVE Steps(_)
Steps(s) ==
    IF s = <<>> THEN <<>>
    ELSE IF Head(s).type \in {"call", "sleep"} THEN <<Head(s)>> \o Steps(Tail(s))
    ELSE Steps(Tail(s))

\* Invocations and sleeps alternate, starting and ending with an invocation.
Alternating(st) ==
    /\ \A i \in 1..Len(st) : st[i].type = (IF i % 2 = 1 THEN "call" ELSE "sleep")
    /\ st # <<>> => st[Len(st)].type = "call"

\* The i-th sleep lasts d * 2^(i-1).
Backoff(sl) == \A i \in 1..Len(sl) : sl[i].dur = D * Pow2(i - 1)

AllRetryable(calls, k) == \A i \in 1..k : RetryableOutcome(calls[i].outcome)

\* Attempt j returned a response with a configured success status that is not
\* a 5xx status.
SucceededAt(calls, j) ==
    /\ j \in 1..Len(calls)
    /\ calls[j].outcome.type = "response"
    /\ calls[j].outcome.status_code \in ConfiguredCodes
    /\ calls[j].outcome.status_code \notin 500..599

RaisedExhausted ==
    /\ result.kind = "raise"
    /\ result.cls = ConfiguredError
    /\ result.detail = <<"Unable to complete request.">>

RaisedSuccess(response) ==
    /\ result.kind = "raise"
    /\ result.cls = ConfiguredSuccess
    /\ result.response = response

----------------------------------------------------------------------------
(* Properties *)

\* C1: when every attempt of a call with valid arguments (N >= 1, d >= 0) ends
\* in a retryable outcome, the finished call has made exactly N transport
\* invocations and N-1 sleeps, the i-th sleep lasting d * 2^(i-1), each sleep
\* between two consecutive invocations, and it ended with the generic
\* retries-exhausted error.
C1_AlwaysFailingExhausts ==
    (Done /\ ValidArgs) =>
        LET calls == Calls IN
        AllRetryable(calls, Len(calls)) =>
            /\ Len(calls) = N
            /\ Len(Sleeps) = N - 1
            /\ Backoff(Sleeps)
            /\ Alternating(Steps(events))
            /\ RaisedExhausted

C1_Witness ==
    /\ Done /\ N = 3 /\ D = 1
    /\ AllRetryable(Calls, Len(Calls))
    /\ Len(Calls) = 3
    /\ Calls[1].outcome.type = "raise" /\ Calls[2].outcome.type = "response"
    /\ Sleeps[2].dur = 2

\* C2: (as claimed) for every success code set the caller supplies, a first
\* response whose status is neither 5xx nor in the supplied set ends the call
\* fatally after exactly one transport invocation, with no sleep and no retry.
C2_ClientErrorIsFatal ==
    (/\ entry = "make_durable_request" /\ ValidArgs
     /\ args.success_codes.present
     /\ Len(Calls) >= 1
     /\ Calls[1].outcome.type = "response"
     /\ Calls[1].outcome.status_code \notin 500..599
     /\ Calls[1].outcome.status_code \notin args.success_codes.val) =>
        /\ Len(Calls) = 1
        /\ Sleeps = <<>>
        /\ Done => /\ result.kind = "raise"
                   /\ result.cls = ConfiguredError

\* C3: (as claimed) for every configured success code set and every status in
\* it, a first response with that status ends the call on the first attempt
\* with the success outcome carrying that response.
C3_SuccessOnFirstAttempt_AnyCode ==
    LET calls == Calls IN
    (/\ ValidArgs /\ Len(calls) >= 1
     /\ calls[1].outcome.type = "response"
     /\ calls[1].outcome.status_code \in ConfiguredCodes) =>
        /\ Len(calls) = 1
        /\ Sleeps = <<>>
        /\ (Done /\ entry = "make_durable_request") =>
                RaisedSuccess(Response(calls[1].outcome.status_code, 1))

\* C3 (amended): for every configured success code set and every status in it
\* that is not in 500..599, a first response with that status ends the call
\* on the first attempt (one transport invocation, no sleep) with the success
\* outcome carrying that response.
C3_SuccessOnFirstAttempt ==
    LET calls == Calls IN
    (ValidArgs /\ SucceededAt(calls, 1)) =>
        /\ Len(calls) = 1
        /\ Sleeps = <<>>
        /\ (Done /\ entry = "make_durable_request") =>
                RaisedSuccess(Response(calls[1].outcome.status_code, 1))

C3_Witness ==
    /\ Done /\ entry = "make_durable_request" /\ N = 3
    /\ args.success_codes = Some({201, 409})
    /\ SucceededAt(Calls, 1) /\ Calls[1].outcome.status_code = 409
    /\ result.kind = "raise" /\ result.response.status_code = 409

\* C4: a call with num_attempts <= 0 or delay < 0 makes no transport
\* invocation and no sleep, and ends with ValueError.
C4_InvalidArgumentsRejected ==
    (N <= 0 \/ D < 0) =>
        /\ events = <<>>
        /\ Done => (result.kind = "raise" /\ result.cls = "ValueError")

C4_Witness ==
    /\ Done /\ N = 0 /\ D >= 0
    /\ result.kind = "raise" /\ result.cls = "ValueError" /\ events = <<>>

\* C5: when the first k >= 1 attempts end in retryable outcomes and attempt
\* k+1 returns a success-coded response, exactly k+1 transport invocations and
\* k sleeps of d, 2d, ..., 2^(k-1)*d occur, each sleep between two invocations,
\* and the call ends with success carrying the response of attempt k+1.
C5_SucceedsAfterRetries ==
    ValidArgs =>
        LET calls == Calls IN
        \A j \in 2..Len(calls) :
            (SucceededAt(calls, j) /\ AllRetryable(calls, j - 1)) =>
                /\ Len(calls) = j
                /\ Len(Sleeps) = j - 1
                /\ Backoff(Sleeps)
                /\ Alternating(Steps(events))
                /\ (Done /\ entry = "make_durable_request") =>
                        RaisedSuccess(Response(calls[j].outcome.status_code, j))

C5_Witness ==
    /\ Done /\ entry = "make_durable_request" /\ N = 3 /\ D = 1
    /\ AllRetryable(Calls, 2) /\ SucceededAt(Calls, 3)
    /\ Calls[1].outcome.type = "response"
    /\ Calls[1].outcome.status_code # Calls[3].outcome.status_code
    /\ result.response = Response(Calls[3].outcome.status_code, 3)
    /\ Sleeps[2].dur = 2

\* C6: no make_durable_request frame, at any depth, returns normally: every
\* frame that exits does so by raising, and the caller of make_durable_request
\* observes a raised success or a raised error.
C6_NeverReturnsNormally ==
    /\ signal.kind # "return"
    /\ (Done /\ entry = "make_durable_request") => result.kind = "raise"

C6_Witness ==
    /\ signal.kind = "raise" /\ Len(stack) = 2
    /\ stack[2].pc = "called"
    /\ entry = "make_durable_request"

\* C7: a transport exception outside the recognized connectivity/timeout
\* category ends the call at once: the invocation that raised it is the last
\* event of the call, and the caller observes that same exception.
C7_UnrecognizedPropagates ==
    LET calls == Calls IN
    \A j \in 1..Len(calls) :
        (/\ calls[j].outcome.type = "raise"
         /\ calls[j].outcome.exc \notin {"ConnectionError", "socket.timeout"}) =>
            /\ j = Len(calls)
            /\ events[Len(events)] = calls[j]
            /\ Done => result = Raise(calls[j].outcome.exc, NoResponse, <<"transport">>)

C7_Witness ==
    /\ Done /\ N = 3 /\ Len(Calls) = 2
    /\ Calls[2].outcome.exc = "ValueError"
    /\ result.kind = "raise" /\ result.cls = "ValueError"

\* C8: make_durable_post returns the response of the first attempt answered
\* with 201 or 409, after no further invocation, and raises on any other
\* non-5xx status; make_durable_get does the same for 200, 201, 202, 204.
\* Neither returns without a response: a finished preset call either returns
\* the response of its last attempt, success-coded, or has raised.
C8_PresetsReturnResponse ==
    (entry \in {"make_durable_post", "make_durable_get"} /\ ValidArgs) =>
        LET calls == Calls IN
        /\ \A j \in 1..Len(calls) :
                SucceededAt(calls, j) =>
                    /\ Len(calls) = j
                    /\ Len(Sleeps) = j - 1
                    /\ Done => result = ReturnValue(
                                   Response(calls[j].outcome.status_code, j))
        /\ Done =>
               \/ result.kind = "raise"
               \/ /\ result.kind = "return"
                  /\ result.response.present
                  /\ SucceededAt(calls, Len(calls))
        /\ (Done /\ ~SucceededAt(calls, Len(calls))) => result.kind = "raise"

C8_Witness ==
    /\ Done /\ entry = "make_durable_post" /\ N = 3
    /\ Len(Calls) = 1 /\ Calls[1].outcome.status_code = 409
    /\ result = ReturnValue(Response(409, 1))

\* C9: (as claimed) every transport invocation of a call gets the target and
\* the body the caller supplied: the body is passed whenever the caller
\* supplied one and omitted only when the caller supplied none.
C9_SameTargetAndBody ==
    LET calls == Calls IN
    \A i \in 1..Len(calls) :
        /\ calls[i].url = args.url
        /\ ("json" \in calls[i].kwargs) <=> args.json.present
        /\ calls[i].json = args.json

\* C10: a call made with the same arguments as an earlier call of the process,
\* against a transport that answers its attempts as it answered the earlier
\* call's, ends with the same outcome after the same transport invocations,
\* sleeps and log records, whatever durable requests and parse_date calls came
\* in between.
SameTransport(earlier, calls) ==
    \A i \in 1..Len(calls) :
        i <= Len(earlier) => earlier[i].outcome = calls[i].outcome
C10_CallsAreIndependent ==
    (Done /\ memo.set /\ memo.entry = entry /\ memo.args = args) =>
        LET calls == Calls
            earlier == Select(memo.events, "call")
        IN  SameTransport(earlier, calls) =>
                /\ result = memo.result
                /\ Len(calls) = Len(earlier)
                /\ Sleeps = Select(memo.events, "sleep")
                /\ events = memo.events

C10_Witness ==
    /\ Done /\ memo.set /\ ncalls = 2
    /\ memo.entry = entry /\ memo.args = args
    /\ SameTransport(Select(memo.events, "call"), Calls)
    /\ Len(Calls) = 3 /\ Len(Sleeps) = 2
    /\ PARSED_DATES # {}
    /\ result.kind = "raise" /\ result.cls = "RequestSuccess"


\* C11: a retryable outcome (ConnectionError, socket.timeout, or a response
\* with status in 500..599, whatever the configured success codes) with more
\* than one attempt left never ends the call: a sleep of the current delay
\* follows, then another attempt, made by a frame with one attempt fewer and
\* twice the delay.  A response with status 499 or 600 is followed by no sleep
\* and no further attempt.
C11_RetryableIsRetried ==
    ValidArgs =>
        LET calls == Calls
            steps == Steps(events)
        IN  \A i \in 1..Len(calls) :
                /\ (RetryableOutcome(calls[i].outcome) /\ N - (i - 1) > 1) =>
                        /\ (signal.kind # "none" \/ Done) => Len(calls) > i
                        /\ Len(steps) >= 2 * i =>
                                /\ steps[2 * i].type = "sleep"
                                /\ steps[2 * i].dur = D * Pow2(i - 1)
                        /\ Len(steps) >= 2 * i + 1 => steps[2 * i + 1].type = "call"
                        /\ Len(stack) >= i + 1 =>
                                /\ stack[i + 1].num_attempts = stack[i].num_attempts - 1
                                /\ stack[i + 1].delay = stack[i].delay * 2
                /\ (/\ calls[i].outcome.type = "response"
                    /\ calls[i].outcome.status_code \in {499, 600}) =>
                        /\ i = Len(calls)
                        /\ Len(steps) = 2 * i - 1

C11_Witness ==
    /\ entry = "make_durable_request" /\ N = 3 /\ D = 1
    /\ args.success_codes = Some({200, 500})
    /\ Len(Calls) = 3 /\ Len(stack) = 3
    /\ Calls[1].outcome.status_code = 500
    /\ Calls[2].outcome.exc = "socket.timeout"
    /\ Calls[3].outcome.status_code = 600
    /\ Sleeps[2].dur = 2
    /\ stack[3].num_attempts = 1 /\ stack[3].delay = 4


\* C12: in a call started with valid arguments (N >= 1, d >= 0), every frame
\* has at least one attempt left and a delay that is not negative; the frame
\* about to make an attempt has num_attempts + (attempts completed) = N and
\* delay = d * 2^(attempts completed), and so has every frame below it for
\* the attempts completed when it was entered.
C12_BudgetAndDelay ==
    ValidArgs =>
        /\ \A k \in 1..Len(stack) :
                /\ stack[k].num_attempts >= 1
                /\ stack[k].num_attempts + (k - 1) = N
                /\ stack[k].delay = D * Pow2(k - 1)
                /\ stack[k].delay >= 0
        /\ (Running /\ Top.pc \in {"validate", "execute"}) =>
                LET completed == Len(Calls) IN
                /\ completed = Len(stack) - 1
                /\ Top.num_attempts + completed = N
                /\ Top.delay = D * Pow2(completed)

C12_Witness ==
    /\ N = 3 /\ D = 2
    /\ Running /\ Len(stack) = 3 /\ Top.pc = "execute"
    /\ Len(Calls) = 2
    /\ Top.num_attempts = 1 /\ Top.delay = 8


\* C13: the events of a call are strictly ordered.  Only the innermost frame
\* is active (one attempt at a time); invocations and sleeps alternate,
\* starting with an invocation; the invocation before a sleep had a retryable
\* outcome; a sleep is the latest step only while the innermost frame is on
\* its way to the next invocation, never once the call has raised or ended;
\* and from the moment a frame has raised, no event is added.
Ordered ==
    LET steps == Steps(events) IN
    /\ \A k \in 1..(Len(stack) - 1) : stack[k].pc = "called"
    /\ \A i \in 1..Len(steps) :
            /\ steps[i].type = (IF i % 2 = 1 THEN "call" ELSE "sleep")
            /\ i % 2 = 0 => RetryableOutcome(steps[i - 1].outcome)
    /\ (steps # <<>> /\ steps[Len(steps)].type = "sleep") =>
            /\ Running
            /\ Top.pc \in {"recurse", "validate", "execute"}
C13_StrictlyOrdered ==
    /\ []Ordered
    /\ [][(signal.kind # "none" \/ Done) => events' = events]_vars

C13_Witness ==
    /\ Done /\ N = 3
    /\ Len(Steps(events)) = 5
    /\ Steps(events)[4].type = "sleep"
    /\ result.kind = "raise" /\ result.cls = "RequestSuccess"


\* C14: the error raised when the budget is exhausted is the same generic
\* error whether the last attempt failed in the transport or was answered
\* with a 5xx: its only argument is the message, with no status and no body
\* of any attempt.  A fatal error carries a status and a body only when the
\* last attempt was answered with a status outside 500..599, and then they
\* are those of that response.
C14_ExhaustedErrorIsGeneric ==
    (Done /\ result.kind = "raise" /\ result.cls = ConfiguredError) =>
        LET calls == Calls
            last == calls[Len(calls)].outcome
        IN  /\ calls # <<>>
            /\ RetryableOutcome(last) =>
                    result = Raise(ConfiguredError, NoResponse,
                                   <<"Unable to complete request.">>)
            /\ ~RetryableOutcome(last) =>
                    /\ last.type = "response"
                    /\ Len(result.detail) = 3
                    /\ result.detail[2] = last.status_code
                    /\ result.detail[3] = Len(calls)
                    /\ ~result.response.present

C14_Witness ==
    /\ Done /\ N = 2
    /\ Len(Calls) = 2
    /\ Calls[1].outcome.exc = "ConnectionError"
    /\ Calls[2].outcome.status_code = 599
    /\ result = Raise(ConfiguredError, NoResponse, <<"Unable to complete request.">>)


\* C15: a call with valid arguments (N >= 1, d >= 0), each of whose transport
\* invocations returns or raises, reaches a terminal state, and at no point
\* has it made more than N transport invocations or more than N-1 sleeps.
C15_Terminates ==
    /\ ValidArgs => <>Done
    /\ [](ValidArgs => (Len(Calls) <= N /\ Len(Sleeps) <= N - 1))

C15_Witness ==
    /\ Done /\ N = 3 /\ D >= 0
    /\ Len(Calls) = 3 /\ Len(Sleeps) = 2


\* C16: the log records follow the outcomes.  After an invocation with a
\* retryable outcome comes exactly one warning, then, if and only if more than
\* one attempt was left, one info record "Will retry request." and after it
\* the sleep; nothing else precedes the next invocation or the end of the
\* call.  After the invocation that ends the call with success comes exactly
\* one info record and nothing else; after the one that ends it with a client
\* error, exactly one error record carrying the status and the body; after an
\* exception that propagates, nothing.  A call that exhausts its budget has
\* logged no error record.
IsLog(e, level) == e.type = "log" /\ e.level = level
IsPrefix(s, t) == Len(s) <= Len(t) /\ \A i \in 1..Len(s) : s[i] = t[i]
\* The type, level and message of the records, without their other fields.
RECURSIVE Shape(_)
Shape(s) ==
    IF s = <<>> THEN <<>>
    ELSE <<IF Head(s).type = "log" THEN <<"log", Head(s).level, Head(s).msg>>
           ELSE <<Head(s).type, "-", "-">> >> \o Shape(Tail(s))
C16_LogsFollowOutcomes ==
    LET pos == { p \in 1..Len(events) : events[p].type = "call" } IN
    /\ pos = {} => events = <<>>
    /\ \A p \in pos :
        LET i == Cardinality({ q \in pos : q <= p })
            later == { q \in pos : q > p }
            isLast == later = {}
            nxt == IF isLast THEN Len(events) + 1
                   ELSE CHOOSE q \in later : \A r \in later : q <= r
            seg == SubSeq(events, p + 1, nxt - 1)
            closed == ~isLast \/ Done
            o == events[p].outcome
        IN  IF RetryableOutcome(o)
            THEN LET expected ==
                        <<<<"log", "warning",
                            IF o.type = "raise" THEN "Network error."
                            ELSE "Server error.">>>>
                        \o (IF N - (i - 1) > 1
                            THEN <<<<"log", "info", "Will retry request.">>,
                                   <<"sleep", "-", "-">>>>
                            ELSE <<>>)
                 IN  /\ IsPrefix(Shape(seg), expected)
                     /\ closed => Shape(seg) = expected
            ELSE /\ isLast
                 /\ o.type = "raise" => seg = <<>>
                 /\ o.type = "response" =>
                        /\ Len(seg) <= 1
                        /\ Done => Len(seg) = 1
                        /\ Len(seg) = 1 =>
                            \/ /\ Shape(seg) = <<<<"log", "info", "Request was successful.">>>>
                               /\ Done => result.response = Response(o.status_code, i)
                            \/ /\ IsLog(seg[1], "error")
                               /\ seg[1].params = <<o.status_code, i>>
                               /\ Done => /\ result.cls = ConfiguredError
                                          /\ Len(result.detail) = 3
    /\ (Done /\ result.detail = <<"Unable to complete request.">>) =>
            \A p \in 1..Len(events) : ~IsLog(events[p], "error")

C16_Witness ==
    /\ Done /\ N = 2 /\ Len(events) = 6
    /\ events[1].type = "call" /\ events[1].outcome.status_code = 500
    /\ IsLog(events[2], "warning")
    /\ IsLog(events[3], "info")
    /\ events[4].type = "sleep"
    /\ events[5].type = "call" /\ events[5].outcome.status_code = 499
    /\ IsLog(events[6], "error") /\ events[6].params = <<499, 2>>


\* C17: after any sequence of parse_date calls the dict holds exactly one
\* entry for each distinct string that was parsed without raising; no entry is
\* ever removed or replaced; a call with a string that is already in the dict
\* leaves the dict as it is and returns what the first call with that string
\* returned.
Parsed == { i \in 1..Len(parses) : ~parses[i].raised }
C17_CacheGrowsOnly ==
    /\ [](/\ Keys(PARSED_DATES) = { parses[i].date_string : i \in Parsed }
          /\ Cardinality(PARSED_DATES) = Cardinality(Keys(PARSED_DATES))
          /\ \A i \in Parsed : \A j \in 1..(i - 1) :
                parses[j].date_string = parses[i].date_string =>
                    /\ ~parses[j].raised
                    /\ parses[i].value = parses[j].value)
    /\ [][\A kv \in PARSED_DATES : kv \in PARSED_DATES']_vars
    /\ [][(/\ Len(parses') = Len(parses) + 1
           /\ parses'[Len(parses')].date_string \in Keys(PARSED_DATES))
          => PARSED_DATES' = PARSED_DATES]_vars

C17_Witness ==
    /\ Len(parses) = 3
    /\ parses[1].date_string = "14:39:10" /\ parses[1].today = 20
    /\ parses[2].raised
    /\ parses[3].date_string = "14:39:10" /\ parses[3].today = 21
    /\ parses[3].value.day = 20
    /\ Cardinality(PARSED_DATES) = 1

====
